---- MODULE Spec2Model ----
(***************************************************************************)
(* Model of src/pipelines/streaming_etl.py: the transaction stream of      *)
(* RegionalBankStreamingETL.  The program declares Structured Streaming    *)
(* queries over one Kinesis stream; the state below is the state those     *)
(* declarations give the queries: the source stream, each query's          *)
(* checkpoint (planned batch, committed offset, event-time watermark), the *)
(* windowed aggregation state of the analytics query and the two append    *)
(* sinks.  Time is counted in minutes since the epoch.                     *)
(***************************************************************************)
EXTENDS Integers, Sequences, FiniteSets, Bags, TLC

\* ---------------------------------------------------------------- constants
\* window("transaction_date", "5 minutes", "1 minute")
WindowLength == 5
SlideInterval == 1
\* self.watermark_delay = "10 minutes"
WatermarkDelay == 10
\* self.alert_thresholds
HighValueTransaction == 100000
SuspiciousFrequency == 10
LargeRemittance == 50000
\* col("transaction_count") / 5
RateWindowMinutes == 5

\* ------------------------------------------------------------------- bounds
\* records ever put on the stream
MaxRecords == 3
\* records put on the stream when both derived frames are followed
MaxPipelineRecords == 2
\* records put on the stream when the whole job is followed
MaxJobRecords == 2
\* event times are WatermarkDelay + k * step, k in 0..MaxTick
\* (0..MaxPipelineTick when both derived frames are followed)
MaxTick == 3
MaxPipelineTick == 2

\* window assignment applied on its own: event times 0..MaxEventTime, slides
\* 1..MaxSlide and window lengths of 1..MaxOverlap slides
MaxEventTime == 12
MaxSlide == 3
MaxOverlap == 5
\* the longest raw code field
MaxCodeLen == 3
\* the runs of the DAG that are followed
MaxRuns == 2

\* the step of the event times: the largest that lets events of
\* neighbouring times share a window; three times that when both frames
\* are followed
TimeStep == WindowLength - SlideInterval
PipelineTimeStep == TimeStep + TimeStep + TimeStep

Times(step, m) == { WatermarkDelay + k * step : k \in 0..m }
\* the raw code fields of the generated records, as sequences of characters
Countries == { << " ", "h", "n" >> }
TransactionTypes == { << "r" >> }
\* StructField("amount", DoubleType(), True): the model holds whole
\* amounts; << h, l >> stands for the double h * 2^53 + l, with h >= 0 and
\* l small against 2^53 (an amount below 2^53 has h = 0)
Whole(n) == << 0, n >>

\* (amount, status) pairs of the generated records
Payloads == { << Whole(50), "SUCCESS" >>, << Whole(150000), "SUCCESS" >> }

\* one parsed row of get_transaction_schema (the fields the queries read)
Fields(step, m) ==
           [ transaction_date : Times(step, m),
             country_code     : Countries,
             transaction_type : TransactionTypes,
             payload          : Payloads ]

\* the record with fields f put on the stream as transaction id
Record(id, f) ==
    [ transaction_id   |-> id,
      transaction_date |-> f.transaction_date,
      country_code     |-> f.country_code,
      transaction_type |-> f.transaction_type,
      payload          |-> f.payload ]

Amount(r) == r.payload[1]
Status(r) == r.payload[2]

\* an amount that is null: from_json reads every field as nullable and
\* leaves a field that is absent or not a number null
NullAmount == << -1, 0 >>

\* a < b for two doubles
DoubleLess(a, b) == a[1] < b[1] \/ ( a[1] = b[1] /\ a[2] < b[2] )
DoubleMax(a, b) == IF DoubleLess(a, b) THEN b ELSE a
DoubleMin(a, b) == IF DoubleLess(b, a) THEN b ELSE a

\* the largest power of two that is at most n (n >= 1)
RECURSIVE Pow2Floor(_)
Pow2Floor(n) == IF n < 2 THEN 1 ELSE 2 * Pow2Floor(n \div 2)

\* the distance between neighbouring doubles around h * 2^53 + l: a double
\* has a significand of 53 bits, so it is 1 below 2^53, 2 from 2^53 up to
\* 2^54, 4 up to 2^55, ...
Ulp(h, l) ==
    LET top == IF l < 0 THEN h - 1 ELSE h
    IN  IF top <= 0 THEN 1 ELSE 2 * Pow2Floor(top)

\* the double nearest to the whole number h * 2^53 + l, the one with the
\* even significand when two are equally near (IEEE 754 round to nearest,
\* ties to even)
RoundDouble(h, l) ==
    LET u  == Ulp(h, l)
        q  == l \div u
        r  == l % u
        up == 2 * r > u \/ ( 2 * r = u /\ q % 2 = 1 )
    IN  << h, ( IF up THEN q + 1 ELSE q ) * u >>

\* a + b of two doubles: the exact sum, rounded to a double (a whole
\* number below 2^53 is a double)
DoubleAdd(a, b) ==
    IF a[1] = 0 /\ b[1] = 0 THEN << 0, a[2] + b[2] >>
    ELSE RoundDouble(a[1] + b[1], a[2] + b[2])

\* the SQL comparisons a > b and a < b are true: a comparison with a null
\* operand is null, which no filter passes and no when() takes
Greater(a, b) == a # NullAmount /\ DoubleLess(b, a)
Less(a, b) == a # NullAmount /\ DoubleLess(a, b)

\* upper(col): every character in upper case
UpperChar(c) ==
    CASE c = "h" -> "H"
      [] c = "n" -> "N"
      [] c = "r" -> "R"
      [] OTHER   -> c
RECURSIVE Upper(_)
Upper(s) ==
    IF s = << >> THEN << >> ELSE << UpperChar(Head(s)) >> \o Upper(Tail(s))

\* trim(col): "Trim the spaces from both ends": the space characters
\* (U+0020) at both ends are removed, no other character is
RECURSIVE TrimLeft(_)
TrimLeft(s) == IF s # << >> /\ Head(s) = " " THEN TrimLeft(Tail(s)) ELSE s
RECURSIVE TrimRight(_)
TrimRight(s) ==
    IF s # << >> /\ s[Len(s)] = " " THEN TrimRight(SubSeq(s, 1, Len(s) - 1)) ELSE s
Trim(s) == TrimRight(TrimLeft(s))

\* upper(trim(col(...))) of a code field
NormalizeCode(s) == Upper(Trim(s))

\* apply_streaming_transformations: the code fields of a row are trimmed
\* and put in upper case
ApplyTransformations(r) ==
    [ r EXCEPT !.country_code = NormalizeCode(@),
               !.transaction_type = NormalizeCode(@) ]

\* the frames of process_transaction_stream that derive data: the windowed
\* analytics and the alerts
Queries == {"analytics", "alerts"}
\* the writers of process_transaction_stream in the order their queries are
\* started: the writer of the transformed rows comes first
StartOrder == << "transactions", "analytics", "alerts" >>
AllQueries == { StartOrder[i] : i \in DOMAIN StartOrder }

\* partitionBy("year", "month", "day") of both writers
PartitionColumns == { "year", "month", "day" }

\* the columns of the frame each writer is given: the parsed schema with
\* the columns apply_streaming_transformations adds; the grouping columns
\* and aggregates of create_real_time_analytics with its derived metrics;
\* the columns create_alert_stream selects
FrameColumns ==
    [ transactions |->
        { "transaction_id", "country_code", "loan_id", "transaction_type",
          "amount", "currency", "transaction_date", "beneficiary_id",
          "sector", "status", "source", "processing_timestamp",
          "transaction_hash", "year", "month", "day", "high_value_flag" },
      analytics |->
        { "window", "country_code", "transaction_type", "transaction_count",
          "total_amount", "avg_amount", "max_amount", "min_amount",
          "transaction_rate_per_minute", "high_frequency_flag" },
      alerts |->
        { "transaction_id", "country_code", "amount", "transaction_type",
          "status", "transaction_date", "alert_type", "alert_timestamp" } ]

VARIABLES
    stream,        \* the Kinesis stream: the records appended so far
    job,           \* the run of main: "launched" (called, arguments not yet
                   \* looked at), "exited" (left at the usage message, before
                   \* a session exists), "starting" (it is starting the
                   \* queries), "failed" (exception raised), "stopped"
                   \* (interrupted)
    qstatus,       \* per query: "none" (not started), "active", "failed" (terminated
                   \* by an exception), "stopped" (terminated by spark.stop())
    phase,         \* per query: "idle", "planned" (offsets logged), "written" (sink acked)
    planned,       \* per query: the batch logged last, [start, end, wm]
    batchId,       \* per query: number of batches logged so far
    committed,     \* per query: offset covered by the commit log
    initialOffset, \* per query: the offset at which a query without offset log begins
    watermark,     \* analytics query: event-time watermark (minutes)
    batchMax,      \* analytics query: max event time seen by the running batch (-1: none)
    windowState,   \* analytics query: state store, window key -> aggregate buffer
    droppedRows,   \* analytics query: history of the <<stream index, window start>> rows
                   \* the watermark filter removed (the program keeps no record of them)
    analyticsSink, \* bag of rows appended to curated/real_time_analytics/transactions
    alertsSink,    \* bag of rows appended to streaming/alerts/transactions
    transactionsSink, \* bag of rows appended to streaming/transactions
    input,         \* the argument of a function of the pipeline applied on its own
    output,        \* the result of that application
    dagRuns        \* the runs of the DAG so far: per run, task id -> task state

vars == << stream, job, qstatus, phase, planned, batchId, committed, initialOffset,
           watermark, batchMax, windowState, droppedRows, analyticsSink, alertsSink,
           transactionsSink, input, output, dagRuns >>

\* what the steps of the producer and of the derived queries leave alone
jobVars == << job, initialOffset, transactionsSink, input, output, dagRuns >>

Max2(a, b) == IF a >= b THEN a ELSE b

\* ------------------------------------------------------- window assignment
\* mutant of WindowStarts: a time on a window boundary is taken to belong
\* to the slide before it
WindowStartsBoundary(t, L, S) ==
    LET overlapping == (L + S - 1) \div S
        lastStart   == IF t % S = 0 THEN t - S ELSE t - (t % S)
    IN  { s \in { lastStart - i * S : i \in 0..(overlapping - 1) } :
            s <= t /\ t < s + L }

\* mutant of WindowStarts: one window too few is tried
WindowStartsShort(t, L, S) ==
    LET overlapping == L \div S - 1
        lastStart   == t - (t % S)
    IN  { s \in { lastStart - i * S : i \in 0..(overlapping - 1) } :
            s <= t /\ t < s + L }

\* window(timeColumn, windowDuration, slideDuration): the starts of the
\* sliding windows [start, start + L) that contain t, aligned to multiples
\* of S since the epoch.
WindowStarts(t, L, S) ==
    LET overlapping == (L + S - 1) \div S
        lastStart   == t - (t % S)
    IN  { s \in { lastStart - i * S : i \in 0..(overlapping - 1) } :
            s <= t /\ t < s + L }

WindowKey(r, s) ==
    [ country_code     |-> r.country_code,
      transaction_type |-> r.transaction_type,
      window_start     |-> s,
      window_end       |-> s + WindowLength ]

\* the grouping keys one row is expanded to
WindowKeys(r) ==
    { WindowKey(r, s) :
        s \in WindowStarts(r.transaction_date, WindowLength, SlideInterval) }

\* ------------------------------------------------------------- aggregation
\* sum("amount"), max("amount"), min("amount") take the amounts that are
\* not null: a null amount leaves the buffer as it is, and the buffer is
\* null as long as no amount was taken
SqlSum(a, x) == IF x = NullAmount THEN a ELSE IF a = NullAmount THEN x ELSE DoubleAdd(a, x)
SqlMax(a, x) == IF x = NullAmount THEN a ELSE IF a = NullAmount THEN x ELSE DoubleMax(a, x)
SqlMin(a, x) == IF x = NullAmount THEN a ELSE IF a = NullAmount THEN x ELSE DoubleMin(a, x)

\* avg("amount") keeps the sum and the number of the amounts that are not
\* null; the average is the first over the second, and null when the
\* second is 0
NoAverage == << Whole(0), 0 >>
SqlAvg(p, x) == IF x = NullAmount THEN p ELSE << DoubleAdd(p[1], x), p[2] + 1 >>

\* the aggregation buffer after the first row of a group
InitAgg(r) ==
    [ transaction_count |-> 1,
      total_amount      |-> Amount(r),
      avg_amount        |-> SqlAvg(NoAverage, Amount(r)),
      max_amount        |-> Amount(r),
      min_amount        |-> Amount(r) ]

\* mutant of UpdateAgg: a row with a negative amount is counted and not
\* taken into the sum, the maximum and the minimum
UpdateAggSkipNegative(a, r) ==
    [ transaction_count |-> a.transaction_count + 1,
      total_amount      |-> DoubleAdd(a.total_amount, DoubleMax(Whole(0), Amount(r))),
      avg_amount        |-> SqlAvg(a.avg_amount, Amount(r)),
      max_amount        |-> DoubleMax(a.max_amount, DoubleMax(Whole(0), Amount(r))),
      min_amount        |-> DoubleMin(a.min_amount, DoubleMax(Whole(0), Amount(r))) ]

\* count("*"), sum("amount"), avg("amount"), max("amount"), min("amount")
\* updated by one row: count("*") counts every row, the others skip a row
\* whose amount is null
UpdateAgg(a, r) ==
    [ transaction_count |-> a.transaction_count + 1,
      total_amount      |-> SqlSum(a.total_amount, Amount(r)),
      avg_amount        |-> SqlAvg(a.avg_amount, Amount(r)),
      max_amount        |-> SqlMax(a.max_amount, Amount(r)),
      min_amount        |-> SqlMin(a.min_amount, Amount(r)) ]

\* mutant of LateForWindow: a window ending exactly at the watermark is kept
LateForWindowStrict(k, wm) == k.window_end < wm

\* withWatermark: a row of a window whose end is at or before the watermark
\* is late for that window
LateForWindow(k, wm) == k.window_end <= wm

\* mutant of LiveKeys: a record behind the watermark is dropped as a whole
LiveKeysEventLate(r, wm) ==
    IF r.transaction_date < wm THEN {}
    ELSE { k \in WindowKeys(r) : k.window_end > wm }

\* mutant of LiveKeys: the watermark filters nothing
LiveKeysAll(r, wm) == WindowKeys(r)

\* the windows of r that the aggregation still accepts under watermark wm
LiveKeys(r, wm) == { k \in WindowKeys(r) : ~LateForWindow(k, wm) }

\* mutant of FoldRecord: a row replaces the buffer of its group
FoldRecordOverwrite(st, r, wm) ==
    LET ks == { k \in WindowKeys(r) : k.window_end > wm }
    IN  [ k \in (DOMAIN st) \cup ks |->
            IF k \in ks THEN InitAgg(r) ELSE st[k] ]

\* fold one record into the state store
FoldRecord(st, r, wm) ==
    LET ks == LiveKeys(r, wm)
    IN  [ k \in (DOMAIN st) \cup ks |->
            IF k \in ks
            THEN IF k \in DOMAIN st THEN UpdateAgg(st[k], r) ELSE InitAgg(r)
            ELSE st[k] ]

\* partial aggregation: the rows of one input partition, the records s[i]
\* for i in I, are folded in source order into buffers that begin empty
RECURSIVE FoldBatch(_, _, _, _)
FoldBatch(st, s, I, wm) ==
    IF I = {} THEN st
    ELSE LET i == CHOOSE j \in I : \A x \in I : j <= x
         IN  FoldBatch(FoldRecord(st, ApplyTransformations(s[i]), wm),
                       s, I \ {i}, wm)

\* the buffers of two sets of rows of one group merged: the counts and the
\* sums are added, the greater maximum and the smaller minimum are kept
MergeAgg(a, b) ==
    [ transaction_count |-> a.transaction_count + b.transaction_count,
      total_amount      |-> SqlSum(a.total_amount, b.total_amount),
      avg_amount        |-> << DoubleAdd(a.avg_amount[1], b.avg_amount[1]),
                               a.avg_amount[2] + b.avg_amount[2] >>,
      max_amount        |-> SqlMax(a.max_amount, b.max_amount),
      min_amount        |-> SqlMin(a.min_amount, b.min_amount) ]

\* the buffers pt merged into the buffers st, group by group
MergeBuffers(st, pt) ==
    IF DOMAIN pt = {} THEN st
    ELSE IF DOMAIN st = {} THEN pt
    ELSE [ k \in (DOMAIN st) \cup (DOMAIN pt) |->
             IF k \notin DOMAIN pt THEN st[k]
             ELSE IF k \notin DOMAIN st THEN pt[k]
             ELSE MergeAgg(st[k], pt[k]) ]

\* the partial buffers of the input partitions p .. n of a batch merged
\* one after the other into mt; part gives the partition of every record
RECURSIVE MergePartials(_, _, _, _, _, _)
MergePartials(mt, s, part, p, n, wm) ==
    IF p > n THEN mt
    ELSE MergePartials(
           MergeBuffers(mt, FoldBatch(<< >>, s, { i \in DOMAIN part : part[i] = p }, wm)),
           s, part, p + 1, n, wm)

\* outputMode("append"): the groups whose window the watermark has passed
Finalized(st, wm) == { k \in DOMAIN st : LateForWindow(k, wm) }

\* mutant of Evict: output groups stay in the state store
EvictNone(st, fin) == st

\* the state store without the groups that were output
Evict(st, fin) == [ k \in (DOMAIN st) \ fin |-> st[k] ]

\* transaction_rate_per_minute = transaction_count / 5, as the pair of the
\* dividend and the divisor
TransactionRate(n) == << n, RateWindowMinutes >>

\* the rate p / q is greater than t
RateExceeds(rate, t) == rate[1] > t * rate[2]

\* mutant of HighFrequencyFlag: the count of the window is compared with the
\* threshold, not the rate per minute
HighFrequencyFlagCount(n) == n > SuspiciousFrequency

\* high_frequency_flag = when(transaction_rate_per_minute >
\* suspicious_frequency, True).otherwise(False)
HighFrequencyFlag(n) == RateExceeds(TransactionRate(n), SuspiciousFrequency)

\* the row written for a finalized group, with the derived metrics
AnalyticsRow(k, a) ==
    [ window               |-> k,
      transaction_count    |-> a.transaction_count,
      total_amount         |-> a.total_amount,
      avg_amount           |-> a.avg_amount,
      max_amount           |-> a.max_amount,
      min_amount           |-> a.min_amount,
      high_frequency_flag  |-> HighFrequencyFlag(a.transaction_count) ]

\* ------------------------------------------------------------------ alerts
\* mutant of HighValueFlag: an amount equal to the threshold is flagged too
HighValueFlagInclusive(r) ==
    Amount(r) # NullAmount /\ ~DoubleLess(Amount(r), Whole(HighValueTransaction))

\* apply_streaming_transformations: the risk indicator of a transaction
HighValueFlag(r) == Greater(Amount(r), Whole(HighValueTransaction))

\* mutant of AlertFilter: the alert stream is read behind the watermark
AlertFilterOnTime(r) ==
    /\ r.transaction_date >= watermark
    /\ HighValueFlag(r) \/ Status(r) = "FAILED" \/ Less(Amount(r), Whole(0))

\* mutant of AlertFilter: a row whose amount is null passes the filter too
AlertFilterNullAmount(r) ==
    \/ HighValueFlag(r) \/ Status(r) = "FAILED" \/ Less(Amount(r), Whole(0))
    \/ Amount(r) = NullAmount

\* create_alert_stream: the filter of the transaction alert stream
AlertFilter(r) == HighValueFlag(r) \/ Status(r) = "FAILED" \/ Less(Amount(r), Whole(0))

\* mutant of AlertType: the rules are applied only to events that are not
\* behind the watermark
AlertTypeOnTime(r) ==
    IF r.transaction_date < watermark THEN "OTHER"
    ELSE IF HighValueFlag(r) THEN "HIGH_VALUE_TRANSACTION"
    ELSE IF Status(r) = "FAILED" THEN "FAILED_TRANSACTION"
    ELSE IF Less(Amount(r), Whole(0)) THEN "NEGATIVE_AMOUNT"
    ELSE "OTHER"

\* create_alert_stream: the when-chain giving alert_type
AlertType(r) ==
    IF HighValueFlag(r) THEN "HIGH_VALUE_TRANSACTION"
    ELSE IF Status(r) = "FAILED" THEN "FAILED_TRANSACTION"
    ELSE IF Less(Amount(r), Whole(0)) THEN "NEGATIVE_AMOUNT"
    ELSE "OTHER"

\* apply_streaming_transformations: the risk indicator of a remittance
LargeRemittanceFlag(r) == Greater(Amount(r), Whole(LargeRemittance))

\* an exchange_rate that is null
NullRate == << >>

\* mutant of RemittanceAlertFilter: a missing exchange rate is not looked for
RemittanceAlertFilterNoRate(r) ==
    LargeRemittanceFlag(r) \/ Status(r) = "FAILED" \/ Less(Amount(r), Whole(0))

\* create_alert_stream: the filter of the remittance alert stream
RemittanceAlertFilter(r) ==
    \/ LargeRemittanceFlag(r)
    \/ Status(r) = "FAILED"
    \/ Less(Amount(r), Whole(0))
    \/ r.exchange_rate = NullRate

\* create_alert_stream: the when-chain giving alert_type of a remittance
RemittanceAlertType(r) ==
    IF LargeRemittanceFlag(r) THEN "LARGE_REMITTANCE"
    ELSE IF Status(r) = "FAILED" THEN "FAILED_REMITTANCE"
    ELSE IF Less(Amount(r), Whole(0)) THEN "NEGATIVE_AMOUNT"
    ELSE IF r.exchange_rate = NullRate THEN "MISSING_EXCHANGE_RATE"
    ELSE "OTHER"

\* create_alert_stream applied to one row: the alert types of the rows it
\* selects, none when the filter drops the row
AlertsOf(r) ==
    IF r.event_type = "Transaction"
    THEN IF AlertFilter(r) THEN << AlertType(r) >> ELSE << >>
    ELSE IF RemittanceAlertFilter(r) THEN << RemittanceAlertType(r) >> ELSE << >>

\* the alert row selected for stream record i
AlertRow(s, i) ==
    [ transaction_id   |-> s[i].transaction_id,
      country_code     |-> NormalizeCode(s[i].country_code),
      amount           |-> Amount(s[i]),
      transaction_type |-> NormalizeCode(s[i].transaction_type),
      status           |-> Status(s[i]),
      transaction_date |-> s[i].transaction_date,
      alert_type       |-> AlertType(s[i]) ]

\* the alert rows of the records stream[from+1 .. to]: a bag, one row for
\* each record that passes the filter
AlertRows(s, from, to) ==
    LET idx  == { j \in (from + 1)..to : AlertFilter(s[j]) }
        rows == { AlertRow(s, i) : i \in idx }
    IN  [ r \in rows |-> Cardinality({ i \in idx : AlertRow(s, i) = r }) ]

\* ------------------------------------------------------- transformed rows
\* apply_streaming_transformations: the row written for stream record i
TransformedRow(s, i) ==
    [ transaction_id   |-> s[i].transaction_id,
      country_code     |-> NormalizeCode(s[i].country_code),
      transaction_type |-> NormalizeCode(s[i].transaction_type),
      amount           |-> Amount(s[i]),
      status           |-> Status(s[i]),
      transaction_date |-> s[i].transaction_date,
      high_value_flag  |-> HighValueFlag(s[i]) ]

\* the transformed rows of the records stream[from+1 .. to]: a bag, one
\* row for each record
TransformedRows(s, from, to) ==
    LET idx  == (from + 1)..to
        rows == { TransformedRow(s, i) : i \in idx }
    IN  [ r \in rows |-> Cardinality({ i \in idx : TransformedRow(s, i) = r }) ]

\* ------------------------------------------------------------ bag helpers
\* the bag holding each element of the set S once
BagOfSet(S) == [ x \in S |-> 1 ]

\* format("parquet"), outputMode("append"): the rows of batch b are added to
\* the files of the sink as the output of that batch.  The file sink of the
\* engine keeps a log of the batch ids it holds next to the files and
\* skips a batch whose id is in it; nothing in src keys or overwrites rows
AppendBatch(sink, b, rows) ==
    IF \E e \in BagToSet(sink) : e.batch = b THEN sink
    ELSE sink (+) [ e \in { [ batch |-> b, row |-> r ] : r \in BagToSet(rows) } |->
                      CopiesIn(e.row, rows) ]

\* ------------------------------------------------------------------- state
NoBatch == [ start |-> 0, end |-> 0, wm |-> 0 ]

\* no function has been applied on its own
NoInput == [ op |-> "none" ]
NoOutput == [ done |-> FALSE ]

\* main is called: it has not looked at its arguments yet, there is no
\* session and no query, the stream and the checkpoints are empty
MainCalled ==
    /\ stream = << >>
    /\ job = "launched"
    /\ qstatus = [ q \in AllQueries |-> "none" ]
    /\ phase = [ q \in AllQueries |-> "idle" ]
    /\ planned = [ q \in AllQueries |-> NoBatch ]
    /\ batchId = [ q \in AllQueries |-> 0 ]
    /\ committed = [ q \in AllQueries |-> 0 ]
    /\ initialOffset = [ q \in AllQueries |-> 0 ]
    /\ watermark = 0
    /\ batchMax = -1
    /\ windowState = << >>
    /\ droppedRows = {}
    /\ analyticsSink = EmptyBag
    /\ alertsSink = EmptyBag
    /\ transactionsSink = EmptyBag

Init ==
    /\ MainCalled
    /\ input = NoInput
    /\ output = NoOutput
    /\ dagRuns = << >>

\* the frame of q is executed micro-batch by micro-batch: the frame of the
\* transformed rows by the query the job has started on it; the frames that
\* create_real_time_analytics and create_alert_stream return whenever they
\* are applied to the stream on their own - the job starts no query on
\* them (StartQuery)
Executes(q) == q \in Queries \/ qstatus[q] = "active"

\* a producer appends one new transaction to the Kinesis stream
Produce(n, step, m) ==
    /\ Len(stream) < n
    /\ \E f \in Fields(step, m) :
          stream' = Append(stream, Record(Len(stream) + 1, f))
    /\ UNCHANGED << qstatus, phase, planned, batchId, committed, watermark, batchMax,
                    windowState, droppedRows, analyticsSink,
                    alertsSink, jobVars >>

\* at-least-once delivery: a record already on the stream is put on it again
Redeliver(n) ==
    /\ Len(stream) < n
    /\ \E i \in 1..Len(stream) : stream' = Append(stream, stream[i])
    /\ UNCHANGED << qstatus, phase, planned, batchId, committed, watermark, batchMax,
                    windowState, droppedRows, analyticsSink,
                    alertsSink, jobVars >>

\* option("initialPosition", "latest"): a query that has no offset log
\* begins at the end of the stream as it is when the query starts, and the
\* next batch of a query begins where its last committed batch ended
NextOffset(q) == Max2(committed[q], initialOffset[q])

\* the analytics query has state the advanced watermark can still evict
NeedsNoDataBatch(q) == q = "analytics" /\ watermark > planned[q].wm

\* trigger(processingTime=...): a micro-batch is planned over the records
\* that arrived since the last commit (or, for the stateful query, without
\* data when the watermark moved), and its offsets and watermark are logged
\* under checkpointLocation before it runs
PlanBatch(q) ==
    /\ Executes(q)
    /\ phase[q] = "idle"
    /\ Len(stream) > NextOffset(q) \/ NeedsNoDataBatch(q)
    /\ planned' = [ planned EXCEPT ![q] =
                      [ start |-> NextOffset(q), end |-> Len(stream),
                        wm |-> IF q = "analytics" THEN watermark ELSE 0 ] ]
    /\ batchId' = [ batchId EXCEPT ![q] = batchId[q] + 1 ]
    /\ phase' = [ phase EXCEPT ![q] = "planned" ]
    /\ UNCHANGED << stream, qstatus, committed, watermark, batchMax,
                    windowState, droppedRows, analyticsSink,
                    alertsSink, jobVars >>

\* the rows of batch b that the watermark filter removes, as <<index,
\* window start>>: window() expands a record to one row per window, and
\* withWatermark drops the rows of the windows that ended by the watermark
BatchDropped(s, b) ==
    UNION { { << i, k.window_start >> :
                k \in { w \in WindowKeys(ApplyTransformations(s[i])) : LateForWindow(w, b.wm) } } :
            i \in (b.start + 1)..b.end }

\* the largest event time among the rows of batch b (-1 when it has no row)
BatchMaxEventTime(s, b) ==
    IF b.start >= b.end THEN -1
    ELSE CHOOSE t \in { s[i].transaction_date : i \in (b.start + 1)..b.end } :
           \A i \in (b.start + 1)..b.end : s[i].transaction_date <= t

\* no amount of batch b and no sum in the buffers st reaches 2^53: the
\* additions of the batch are exact, whatever their grouping
AddsExactly(st, s, b) ==
    /\ \A i \in (b.start + 1)..b.end : Amount(s[i])[1] <= 0
    /\ \A k \in DOMAIN st : st[k].total_amount[1] <= 0

\* the ways the records of batch b are spread over the input partitions
\* the engine reads them from: every record is in one of at most as many
\* partitions as the batch has records.  Where the additions are exact
\* every spread gives the same buffers, and the spread that puts all
\* records in one partition stands for all of them
Spreads(st, s, b) ==
    IF AddsExactly(st, s, b)
    THEN { [ i \in (b.start + 1)..b.end |-> 1 ] }
    ELSE [ (b.start + 1)..b.end -> 1..(b.end - b.start) ]

\* the state store after the batch, before eviction: groupBy(...).agg(...)
\* on a stream aggregates the rows of every input partition on their own,
\* merges these partial buffers, and merges the result into the buffers
\* restored from the state store
BatchState(st, s, b, part) ==
    MergeBuffers(st, MergePartials(<< >>, s, part, 1, b.end - b.start, b.wm))

\* the frame of create_real_time_analytics runs its planned batch: late
\* rows are dropped, the others are aggregated partition by partition and
\* merged into the state store, the groups behind the watermark are
\* appended to the output and evicted
RunAnalyticsBatch ==
    /\ phase["analytics"] = "planned"
    /\ \E part \in Spreads(windowState, stream, planned["analytics"]) :
          LET b   == planned["analytics"]
              st1 == BatchState(windowState, stream, b, part)
              fin == Finalized(st1, b.wm)
          IN  /\ windowState' = Evict(st1, fin)
              /\ analyticsSink' =
                   AppendBatch(analyticsSink, batchId["analytics"],
                               BagOfSet({ AnalyticsRow(k, st1[k]) : k \in fin }))
              /\ droppedRows' = droppedRows \cup BatchDropped(stream, b)
              /\ batchMax' = BatchMaxEventTime(stream, b)
    /\ phase' = [ phase EXCEPT !["analytics"] = "written" ]
    /\ UNCHANGED << stream, qstatus, planned, batchId, committed, watermark,
                    alertsSink, jobVars >>

\* the frame of create_alert_stream runs its planned batch: the rows
\* passing the filter are appended to the output
RunAlertsBatch ==
    /\ phase["alerts"] = "planned"
    /\ LET b == planned["alerts"]
       IN  alertsSink' = AppendBatch(alertsSink, batchId["alerts"],
                                     AlertRows(stream, b.start, b.end))
    /\ phase' = [ phase EXCEPT !["alerts"] = "written" ]
    /\ UNCHANGED << stream, qstatus, planned, batchId, committed, watermark, batchMax,
                    windowState, droppedRows, analyticsSink, jobVars >>

\* the query of the transformed rows runs its planned batch: every row is
\* appended to the sink; the sink acknowledges the batch
RunTransactionsBatch ==
    /\ qstatus["transactions"] = "active"
    /\ phase["transactions"] = "planned"
    /\ LET b == planned["transactions"]
       IN  transactionsSink' =
             AppendBatch(transactionsSink, batchId["transactions"],
                         TransformedRows(stream, b.start, b.end))
    /\ phase' = [ phase EXCEPT !["transactions"] = "written" ]
    /\ UNCHANGED << stream, job, qstatus, planned, batchId, committed, initialOffset,
                    watermark, batchMax, windowState, droppedRows,
                    analyticsSink, alertsSink, input, output, dagRuns >>

\* mutant of NextWatermark: the watermark follows the newest batch
NextWatermarkOfBatch(wm, m) ==
    IF m < 0 THEN wm ELSE m - WatermarkDelay

\* the watermark after a batch whose largest event time was m
NextWatermark(wm, m) ==
    IF m < 0 THEN wm ELSE Max2(wm, m - WatermarkDelay)

\* mutant of CommitBatch: the planned batch is committed before it is written
CommitBatchEarly(q) ==
    /\ Executes(q)
    /\ phase[q] = "planned"
    /\ committed' = [ committed EXCEPT ![q] = planned[q].end ]
    /\ phase' = [ phase EXCEPT ![q] = "idle" ]
    /\ UNCHANGED << stream, qstatus, planned, batchId, watermark, batchMax,
                    windowState, droppedRows, analyticsSink,
                    alertsSink, jobVars >>

\* after the sink acknowledged the batch, the batch is entered in the commit
\* log; the analytics query first advances its watermark
CommitBatch(q) ==
    /\ Executes(q)
    /\ phase[q] = "written"
    /\ committed' = [ committed EXCEPT ![q] = planned[q].end ]
    /\ phase' = [ phase EXCEPT ![q] = "idle" ]
    /\ IF q = "analytics"
       THEN /\ watermark' = NextWatermark(watermark, batchMax)
            /\ batchMax' = -1
       ELSE UNCHANGED << watermark, batchMax >>
    /\ UNCHANGED << stream, qstatus, planned, batchId, windowState, droppedRows,
                    analyticsSink, alertsSink, jobVars >>

\* the write of the planned batch raises (the store is unavailable): the
\* query terminates with the exception, nothing of the batch is written or
\* committed, and nothing in run_streaming_pipeline restarts it
SinkError(q) ==
    /\ qstatus[q] = "active"
    /\ phase[q] = "planned"
    /\ qstatus' = [ qstatus EXCEPT ![q] = "failed" ]
    /\ UNCHANGED << stream, phase, planned, batchId, committed, watermark, batchMax,
                    windowState, droppedRows, analyticsSink,
                    alertsSink, jobVars >>

\* the write of the offset log (before the batch) or of the commit log
\* (after the sink returned) under checkpointLocation raises: the query
\* terminates with the exception, the batch is not committed
CheckpointError(q) ==
    /\ qstatus[q] = "active"
    /\ \/ phase[q] = "written"
       \/ phase[q] = "idle" /\ ( Len(stream) > NextOffset(q) \/ NeedsNoDataBatch(q) )
    /\ qstatus' = [ qstatus EXCEPT ![q] = "failed" ]
    /\ UNCHANGED << stream, phase, planned, batchId, committed, watermark, batchMax,
                    windowState, droppedRows, analyticsSink,
                    alertsSink, jobVars >>

\* the Kinesis stream is unavailable when the trigger fires: readStream
\* is given no retry option, the read of the new offsets raises once the
\* connector gives up, and the query terminates with the exception
SourceError(q) ==
    /\ qstatus[q] = "active"
    /\ phase[q] = "idle"
    /\ qstatus' = [ qstatus EXCEPT ![q] = "failed" ]
    /\ UNCHANGED << stream, phase, planned, batchId, committed, watermark, batchMax,
                    windowState, droppedRows, analyticsSink,
                    alertsSink, jobVars >>

\* ------------------------------------------------------------- the job
\* sys.argv of a run of the job: the script alone, the script with the
\* bucket and the stream prefix, the script with named arguments
Argvs ==
    { << "streaming_etl.py" >>,
      << "streaming_etl.py", "bucket", "prefix" >>,
      << "streaming_etl.py", "--JOB_NAME", "streaming", "--bucket", "bucket" >> }

\* the number of entries of sys.argv that main goes on with
ArgCount == 3

\* main looks at its arguments: unless they are the script, the bucket and
\* the stream prefix it prints the usage line and leaves with sys.exit(1),
\* before a session is built and before any query is started; otherwise it
\* builds the session and enters run_streaming_pipeline
Main ==
    /\ job = "launched"
    /\ \E argv \in Argvs :
          job' = IF Len(argv) # ArgCount THEN "exited" ELSE "starting"
    /\ UNCHANGED << stream, qstatus, phase, planned, batchId, committed, initialOffset,
                    watermark, batchMax, windowState, droppedRows, analyticsSink,
                    alertsSink, transactionsSink, input, output, dagRuns >>

\* spark.stop(): every query that still runs is stopped where it stands
StopQueries == [ q \in AllQueries |->
                   IF qstatus[q] = "active" THEN "stopped" ELSE qstatus[q] ]

\* the writer to be started next: the first of StartOrder without a query
NextToStart(q) ==
    \E i \in DOMAIN StartOrder :
        /\ StartOrder[i] = q
        /\ qstatus[q] = "none"
        /\ \A j \in 1..(i - 1) : qstatus[StartOrder[j]] # "none"

\* start() of the writer of q raises: a partitionBy column is not a column
\* of the frame ("Partition column year not found in existing columns")
StartRaises(q) == ~( PartitionColumns \subseteq FrameColumns[q] )

\* process_transaction_stream starts the writer of q.  Where the frame has
\* the partition columns the query is created and resumes from its
\* checkpoint: a batch that was logged and not committed is run again; a
\* query that has logged no batch begins at the end of the stream
\* (initialPosition "latest"): the records put on the stream before are
\* never read.
\* Where it has not, start() raises: process_transaction_stream and
\* run_streaming_pipeline pass the exception on (the except clause logs and
\* re-raises it), the queries after q are never started, and the finally
\* clause of main stops Spark and with it every query that runs
StartQuery(q) ==
    /\ job = "starting"
    /\ NextToStart(q)
    /\ IF StartRaises(q)
       THEN /\ job' = "failed"
            /\ qstatus' = StopQueries
            /\ phase' = phase
            /\ initialOffset' = initialOffset
       ELSE /\ job' = job
            /\ qstatus' = [ qstatus EXCEPT ![q] = "active" ]
            /\ phase' = [ phase EXCEPT ![q] =
                            IF @ = "written" THEN "planned" ELSE @ ]
            /\ initialOffset' =
                  IF batchId[q] = 0
                  THEN [ initialOffset EXCEPT ![q] = Len(stream) ]
                  ELSE initialOffset
    /\ UNCHANGED << stream, planned, batchId, committed, watermark, batchMax,
                    windowState, droppedRows, analyticsSink,
                    alertsSink, transactionsSink, input, output, dagRuns >>

\* an interrupt reaches main while it starts the queries: it is no
\* Exception, so only the finally clause runs and stops Spark
Shutdown ==
    /\ job = "starting"
    /\ job' = "stopped"
    /\ qstatus' = StopQueries
    /\ UNCHANGED << stream, phase, planned, batchId, committed, initialOffset,
                    watermark, batchMax, windowState, droppedRows, analyticsSink,
                    alertsSink, transactionsSink, input, output, dagRuns >>

\* the DAG task of the failed job is retried: main runs again with the
\* same arguments; a run that left at the usage message leaves there
\* again, a run that failed later starts its queries anew on the same
\* bucket
Restart ==
    /\ job \in { "failed", "exited" }
    /\ job' = IF job = "exited" THEN "exited" ELSE "starting"
    /\ qstatus' = [ q \in AllQueries |-> "none" ]
    /\ UNCHANGED << stream, phase, planned, batchId, committed, initialOffset,
                    watermark, batchMax, windowState, droppedRows, analyticsSink,
                    alertsSink, transactionsSink, input, output, dagRuns >>

\* the analytics frame applied to the stream on its own, and the producer
NextAnalytics ==
    \/ Produce(MaxRecords, TimeStep, MaxTick)
    \/ Redeliver(MaxRecords)
    \/ PlanBatch("analytics")
    \/ RunAnalyticsBatch
    \/ CommitBatch("analytics")

SpecAnalytics == Init /\ [][NextAnalytics]_vars

\* both derived frames of process_transaction_stream applied to the stream
\* on their own, and the producer
Next ==
    \/ Produce(MaxPipelineRecords, PipelineTimeStep, MaxPipelineTick)
    \/ Redeliver(MaxPipelineRecords)
    \/ \E q \in Queries : PlanBatch(q)
    \/ RunAnalyticsBatch
    \/ RunAlertsBatch
    \/ \E q \in Queries : CommitBatch(q)

Spec == Init /\ [][Next]_vars

\* the micro-batches of the query of the transformed rows
TransactionsStep ==
    \/ PlanBatch("transactions")
    \/ RunTransactionsBatch
    \/ CommitBatch("transactions")

\* main: it starts the writers in their order while the query of the
\* transformed rows, once started, processes the stream; the retry of the
\* DAG task and an interrupt
NextJob ==
    \/ Produce(MaxJobRecords, PipelineTimeStep, MaxPipelineTick)
    \/ Main
    \/ \E q \in AllQueries : StartQuery(q)
    \/ TransactionsStep
    \/ SinkError("transactions")
    \/ Restart
    \/ Shutdown

SpecJob == Init /\ [][NextJob]_vars

\* the job whose queries fail on their checkpoint store
NextCheckpoint ==
    \/ Produce(MaxJobRecords, PipelineTimeStep, MaxPipelineTick)
    \/ Main
    \/ \E q \in AllQueries : StartQuery(q)
    \/ TransactionsStep
    \/ CheckpointError("transactions")
    \/ Restart

SpecCheckpoint == Init /\ [][NextCheckpoint]_vars

\* the job whose queries fail on the reads of the stream
NextSource ==
    \/ Produce(MaxJobRecords, PipelineTimeStep, MaxPipelineTick)
    \/ Main
    \/ \E q \in AllQueries : StartQuery(q)
    \/ TransactionsStep
    \/ SourceError("transactions")
    \/ Restart

SpecSource == Init /\ [][NextSource]_vars

\* ------------------------------------------------------------ raw records
\* from_json(data, schema) gives null for a field the JSON text lacks (the
\* schema is read as nullable); the ids of the records are 1, 2, ..., and a
\* null transaction_id is written 0
NullId == 0

\* (amount, status) pairs of the raw records: the JSON may lack amount
RawPayloads == { << Whole(50), "SUCCESS" >>, << NullAmount, "SUCCESS" >> }

\* one row parsed from a raw record
RawFields(step, m) ==
           [ transaction_date : Times(step, m),
             country_code     : Countries,
             transaction_type : TransactionTypes,
             payload          : RawPayloads ]

\* a producer appends a raw record whose JSON may lack transaction_id,
\* amount or both
ProduceRaw(n, step, m) ==
    /\ Len(stream) < n
    /\ \E f \in RawFields(step, m), id \in { Len(stream) + 1, NullId } :
          stream' = Append(stream, Record(id, f))
    /\ UNCHANGED << qstatus, phase, planned, batchId, committed, watermark, batchMax,
                    windowState, droppedRows, analyticsSink,
                    alertsSink, jobVars >>

\* the analytics frame applied to raw records
NextIngest ==
    \/ ProduceRaw(MaxPipelineRecords, TimeStep, MaxTick)
    \/ PlanBatch("analytics")
    \/ RunAnalyticsBatch
    \/ CommitBatch("analytics")

SpecIngest == Init /\ [][NextIngest]_vars

\* ------------------------------------------------------------ a scenario
\* three transactions of one country and type, spelled with different
\* letter case and surrounding spaces, with event times in the window
\* [WatermarkDelay, WatermarkDelay + WindowLength) and amounts 50, 150000
\* and -20
ScenarioEvents ==
    { [ transaction_date |-> WatermarkDelay,
        country_code |-> << " ", "h", "n" >>, transaction_type |-> << "r" >>,
        payload |-> << Whole(50), "SUCCESS" >> ],
      [ transaction_date |-> WatermarkDelay + SlideInterval + SlideInterval,
        country_code |-> << "H", "N" >>, transaction_type |-> << "R", " " >>,
        payload |-> << Whole(150000), "SUCCESS" >> ],
      [ transaction_date |-> WatermarkDelay + WindowLength - SlideInterval,
        country_code |-> << "h", "N", " " >>, transaction_type |-> << " ", "r" >>,
        payload |-> << Whole(-20), "SUCCESS" >> ] }

\* a later transaction, far enough ahead to move the watermark past every
\* window of the three
ScenarioCloser ==
    [ transaction_date |-> WatermarkDelay + WindowLength + WindowLength + WatermarkDelay,
      country_code |-> << " ", "h", "n" >>, transaction_type |-> << "r" >>,
      payload |-> << Whole(50), "SUCCESS" >> ]

\* the fields of the records on the stream, without their ids
StreamFields ==
    { [ transaction_date |-> stream[i].transaction_date,
        country_code     |-> stream[i].country_code,
        transaction_type |-> stream[i].transaction_type,
        payload          |-> stream[i].payload ] : i \in 1..Len(stream) }

\* the producer feeds the transactions of events in some order, then the
\* later one
Feed(events, closer) ==
    /\ \E f \in events \cup { closer } :
          /\ f \notin StreamFields
          /\ f = closer => events \subseteq StreamFields
          /\ stream' = Append(stream, Record(Len(stream) + 1, f))
    /\ UNCHANGED << qstatus, phase, planned, batchId, committed, watermark, batchMax,
                    windowState, droppedRows, analyticsSink,
                    alertsSink, jobVars >>

NextScenario ==
    \/ Feed(ScenarioEvents, ScenarioCloser)
    \/ \E q \in Queries : PlanBatch(q)
    \/ RunAnalyticsBatch
    \/ RunAlertsBatch
    \/ \E q \in Queries : CommitBatch(q)

SpecScenario == Init /\ [][NextScenario]_vars

\* ------------------------------------------------ a scenario of large sums
\* three transactions of one country and type with event times in one
\* window: the amount 2^53 = 9007199254740992 and twice the amount 1
OrderEvents ==
    { [ transaction_date |-> WatermarkDelay,
        country_code |-> << "H", "N" >>, transaction_type |-> << "R" >>,
        payload |-> << << 1, 0 >>, "SUCCESS" >> ],
      [ transaction_date |-> WatermarkDelay + SlideInterval,
        country_code |-> << "H", "N" >>, transaction_type |-> << "R" >>,
        payload |-> << Whole(1), "SUCCESS" >> ],
      [ transaction_date |-> WatermarkDelay + SlideInterval + SlideInterval,
        country_code |-> << "H", "N" >>, transaction_type |-> << "R" >>,
        payload |-> << Whole(1), "SUCCESS" >> ] }

\* the analytics frame applied to these transactions, fed in some order
NextOrder ==
    \/ Feed(OrderEvents, ScenarioCloser)
    \/ PlanBatch("analytics")
    \/ RunAnalyticsBatch
    \/ CommitBatch("analytics")

SpecOrder == Init /\ [][NextOrder]_vars

\* ------------------------------------------- functions applied on their own
\* the event of the window assignment example: 12:03:30, in seconds
ExampleEventTime == (12 * 60 + 3) * 60 + 30
ExampleWindowInput ==
    [ op |-> "window", t |-> ExampleEventTime,
      L |-> WindowLength * 60, S |-> SlideInterval * 60 ]

\* an event time, a slide and a window length that the slide divides
WindowInputs ==
    { [ op |-> "window", t |-> t, L |-> n * S, S |-> S ] :
        t \in 0..MaxEventTime, S \in 1..MaxSlide, n \in 1..MaxOverlap }
    \cup { ExampleWindowInput }

\* amounts around the two thresholds and an amount that is null, a status
\* that is null, an exchange rate that is null
AlertAmounts ==
    { NullAmount } \cup
    { Whole(n) : n \in { -20, 0, 100, LargeRemittance, LargeRemittance + 1,
                         HighValueTransaction, HighValueTransaction + 1, 150000 } }
AlertStatuses == { "SUCCESS", "FAILED", "PENDING", "NULL" }
ExchangeRates == { NullRate, << 1 >> }

\* one transformed row of either stream, as create_alert_stream reads it
AlertInputs ==
    { [ op |-> "evaluate", event_type |-> "Transaction",
        payload |-> << a, st >>, exchange_rate |-> NullRate ] :
        a \in AlertAmounts, st \in AlertStatuses }
    \cup
    { [ op |-> "evaluate", event_type |-> "Remittance",
        payload |-> << a, st >>, exchange_rate |-> x ] :
        a \in AlertAmounts, st \in AlertStatuses, x \in ExchangeRates }

\* the counts of a window row: none, few, and those around five times the
\* threshold of the rate
FrequencyCounts ==
    { 0, 1, SuspiciousFrequency, SuspiciousFrequency + 1,
      SuspiciousFrequency * RateWindowMinutes - 1,
      SuspiciousFrequency * RateWindowMinutes,
      SuspiciousFrequency * RateWindowMinutes + 1,
      2 * SuspiciousFrequency * RateWindowMinutes }

\* the count of one aggregated window row, as the derived metrics read it
FrequencyInputs == { [ op |-> "frequency", count |-> n ] : n \in FrequencyCounts }

\* the characters of a raw code field: a space, a tab, a letter in both
\* cases
CodeChars == { " ", "\t", "h", "H" }

\* the raw values of a code field, as sequences of characters
Codes == UNION { [ 1..n -> CodeChars ] : n \in 0..MaxCodeLen }

\* a parsed transaction whose code fields hold the raw value c
RawTransaction(c) ==
    Record(1, [ transaction_date |-> WatermarkDelay,
                country_code     |-> c,
                transaction_type |-> c,
                payload          |-> << Whole(50), "SUCCESS" >> ])

\* two raw values of the code fields
CodeInputs == { [ op |-> "normalize", a |-> x, b |-> y ] : x \in Codes, y \in Codes }

OperatorInputs ==
    WindowInputs \cup AlertInputs \cup CodeInputs \cup FrequencyInputs

InitOperators ==
    /\ MainCalled
    /\ input \in OperatorInputs
    /\ output = NoOutput
    /\ dagRuns = << >>

\* what the application of a function leaves alone
pipelineVars ==
    << stream, job, qstatus, phase, planned, batchId, committed, initialOffset,
       watermark, batchMax,
       windowState, droppedRows, analyticsSink, alertsSink,
       transactionsSink >>

\* window(...) is evaluated for one event time
AssignWindows ==
    /\ input.op = "window"
    /\ ~output.done
    /\ output' = [ done |-> TRUE,
                   value |-> WindowStarts(input.t, input.L, input.S) ]
    /\ UNCHANGED << input, dagRuns, pipelineVars >>

\* create_alert_stream is evaluated for one row
Evaluate ==
    /\ input.op = "evaluate"
    /\ ~output.done
    /\ output' = [ done |-> TRUE, value |-> AlertsOf(input) ]
    /\ UNCHANGED << input, dagRuns, pipelineVars >>

\* two transactions are transformed and expanded to their grouping keys
NormalizeKeys ==
    /\ input.op = "normalize"
    /\ ~output.done
    /\ output' = [ done |-> TRUE,
                   value |-> << WindowKeys(ApplyTransformations(RawTransaction(input.a))),
                                WindowKeys(ApplyTransformations(RawTransaction(input.b))) >> ]
    /\ UNCHANGED << input, dagRuns, pipelineVars >>

\* the high-frequency flag is derived for one aggregated window row
FlagFrequency ==
    /\ input.op = "frequency"
    /\ ~output.done
    /\ output' = [ done |-> TRUE, value |-> HighFrequencyFlag(input.count) ]
    /\ UNCHANGED << input, dagRuns, pipelineVars >>

NextOperators ==
    \/ AssignWindows
    \/ Evaluate
    \/ NormalizeKeys
    \/ FlagFrequency

SpecOperators == InitOperators /\ [][NextOperators]_vars

\* ---------------------------------------------------------------- the DAG
\* the tasks of regional_bank_data_pipeline
Tasks ==
    { "start", "get_processing_date", "batch_etl_job", "batch_etl_sensor",
      "data_quality_check", "glue_crawler", "crawler_sensor", "dbt_run",
      "dbt_test", "dbt_docs", "update_redshift", "streaming_etl_job",
      "send_notification", "end" }

\* mutant of Edges: the notification is also downstream of the streaming job
EdgesJoined ==
    { << "start", "get_processing_date" >>,
      << "get_processing_date", "batch_etl_job" >>,
      << "batch_etl_job", "batch_etl_sensor" >>,
      << "batch_etl_sensor", "data_quality_check" >>,
      << "data_quality_check", "glue_crawler" >>,
      << "glue_crawler", "crawler_sensor" >>,
      << "crawler_sensor", "dbt_run" >>,
      << "dbt_run", "dbt_test" >>,
      << "dbt_test", "dbt_docs" >>,
      << "dbt_docs", "update_redshift" >>,
      << "get_processing_date", "streaming_etl_job" >>,
      << "streaming_etl_job", "send_notification" >>,
      << "update_redshift", "send_notification" >>,
      << "send_notification", "end" >> }

\* the task dependencies: << a, b >> for a >> b
Edges ==
    { << "start", "get_processing_date" >>,
      << "get_processing_date", "batch_etl_job" >>,
      << "batch_etl_job", "batch_etl_sensor" >>,
      << "batch_etl_sensor", "data_quality_check" >>,
      << "data_quality_check", "glue_crawler" >>,
      << "glue_crawler", "crawler_sensor" >>,
      << "crawler_sensor", "dbt_run" >>,
      << "dbt_run", "dbt_test" >>,
      << "dbt_test", "dbt_docs" >>,
      << "dbt_docs", "update_redshift" >>,
      << "get_processing_date", "streaming_etl_job" >>,
      << "update_redshift", "send_notification" >>,
      << "send_notification", "end" >> }

\* the tasks directly upstream of task t
Upstream(t) == { e[1] : e \in { d \in Edges : d[2] = t } }

\* max_active_runs of the DAG
MaxActiveRuns == 1

\* the states of a task instance in which it will not run any more
FinishedStates == { "success", "failed", "upstream_failed" }

\* a run is active as long as one of its tasks has not finished
RunActive(r) == \E t \in Tasks : dagRuns[r][t] \notin FinishedStates

ActiveRuns == { r \in DOMAIN dagRuns : RunActive(r) }

\* the scheduler creates the run of the next schedule interval, unless
\* max_active_runs runs are active
CreateRun ==
    /\ Len(dagRuns) < MaxRuns
    /\ Cardinality(ActiveRuns) < MaxActiveRuns
    /\ dagRuns' = Append(dagRuns, [ t \in Tasks |-> "none" ])
    /\ UNCHANGED << input, output, pipelineVars >>

\* the scheduler starts task t of run r: every task has the default trigger
\* rule, all upstream tasks succeeded
StartTask(r, t) ==
    /\ r \in DOMAIN dagRuns
    /\ dagRuns[r][t] = "none"
    /\ \A u \in Upstream(t) : dagRuns[r][u] = "success"
    /\ dagRuns' = [ dagRuns EXCEPT ![r][t] = "running" ]
    /\ UNCHANGED << input, output, pipelineVars >>

\* task t of run r returns
TaskSucceeds(r, t) ==
    /\ r \in DOMAIN dagRuns
    /\ dagRuns[r][t] = "running"
    /\ dagRuns' = [ dagRuns EXCEPT ![r][t] = "success" ]
    /\ UNCHANGED << input, output, pipelineVars >>

\* the operators whose execution can raise: the two DummyOperators do
\* nothing
CanFail(t) == t \notin { "start", "end" }

\* task t of run r raises on its last try (retries: 3)
TaskFails(r, t) ==
    /\ r \in DOMAIN dagRuns
    /\ CanFail(t)
    /\ dagRuns[r][t] = "running"
    /\ dagRuns' = [ dagRuns EXCEPT ![r][t] = "failed" ]
    /\ UNCHANGED << input, output, pipelineVars >>

\* a task with an upstream task that failed is not run
UpstreamFailed(r, t) ==
    /\ r \in DOMAIN dagRuns
    /\ dagRuns[r][t] = "none"
    /\ \E u \in Upstream(t) : dagRuns[r][u] \in { "failed", "upstream_failed" }
    /\ dagRuns' = [ dagRuns EXCEPT ![r][t] = "upstream_failed" ]
    /\ UNCHANGED << input, output, pipelineVars >>

NextDag ==
    \/ CreateRun
    \/ \E r \in 1..MaxRuns, t \in Tasks : StartTask(r, t)
    \/ \E r \in 1..MaxRuns, t \in Tasks : TaskSucceeds(r, t)
    \/ \E r \in 1..MaxRuns, t \in Tasks : TaskFails(r, t)
    \/ \E r \in 1..MaxRuns, t \in Tasks : UpstreamFailed(r, t)

SpecDag == Init /\ [][NextDag]_vars

\* ============================================================== properties
\* ------------------------------------------------- vocabulary of the claims
\* the stream offset up to which the analytics query has folded records
Processed ==
    IF phase["analytics"] = "written" THEN planned["analytics"].end
    ELSE committed["analytics"]

\* the stream indices of the batch the analytics query planned last
AnalyticsBatch == (planned["analytics"].start + 1)..planned["analytics"].end

\* the analytics query takes the step that runs its planned batch
AnalyticsPass == phase["analytics"] = "planned" /\ phase'["analytics"] = "written"

\* record r carries the key fields of window k, trimmed and in upper case,
\* and its event time lies in k
InWindow(r, k) ==
    /\ k.window_start <= r.transaction_date
    /\ r.transaction_date < k.window_end
    /\ NormalizeCode(r.country_code) = k.country_code
    /\ NormalizeCode(r.transaction_type) = k.transaction_type

\* the rows in the files of the analytics sink
AnalyticsRows == { e.row : e \in BagToSet(analyticsSink) }

\* every window key a record of the stream belongs to
StreamKeys == UNION { WindowKeys(ApplyTransformations(stream[i])) : i \in 1..Len(stream) }

RECURSIVE SumCopies(_, _)
SumCopies(B, S) ==
    IF S = {} THEN 0
    ELSE LET x == CHOOSE y \in S : TRUE
         IN  CopiesIn(x, B) + SumCopies(B, S \ {x})

\* how many rows the bag B of analytics rows holds for window key k
EmitCountIn(B, k) == SumCopies(B, { e \in BagToSet(B) : e.row.window = k })
EmitCount(k) == EmitCountIn(analyticsSink, k)

\* the processed deliveries whose key fields and event time fall in window k
Deliveries(k) == { i \in 1..Processed : InWindow(stream[i], k) }

\* the deliveries among I whose row for window k the watermark did not drop
Undropped(I, k) == { i \in I : << i, k.window_start >> \notin droppedRows }

\* the deliveries of window k that the watermark did not drop
Folded(k) == Undropped(Deliveries(k), k)

\* the amounts of the records of s at the indices I, added one after the
\* other in the order of the indices
RECURSIVE SumAmounts(_, _)
SumAmounts(s, I) ==
    IF I = {} THEN Whole(0)
    ELSE LET i == CHOOSE j \in I : \A x \in I : x <= j
         IN  DoubleAdd(SumAmounts(s, I \ {i}), Amount(s[i]))

MaxAmount(s, I) ==
    CHOOSE m \in { Amount(s[i]) : i \in I } : \A i \in I : ~DoubleLess(m, Amount(s[i]))
MinAmount(s, I) ==
    CHOOSE m \in { Amount(s[i]) : i \in I } : \A i \in I : ~DoubleLess(Amount(s[i]), m)

\* ---------------------------------------------------------------------- C1
\* the amounts of the records of s at the indices I, added one after the
\* other in the order of their event times (of their indices where the
\* event times are equal)
RECURSIVE SumByEventTime(_, _)
SumByEventTime(s, I) ==
    IF I = {} THEN Whole(0)
    ELSE LET i == CHOOSE j \in I :
                    \A x \in I :
                       \/ s[x].transaction_date < s[j].transaction_date
                       \/ s[x].transaction_date = s[j].transaction_date /\ x <= j
         IN  DoubleAdd(SumByEventTime(s, I \ {i}), Amount(s[i]))

\* C1 as stated (determinism of aggregation): the row written for a window
\* none of whose deliveries was dropped holds the same count, sum, minimum
\* and maximum whatever the order in which the events of the window were
\* delivered - those that the delivery in the order of the event times
\* gives.
C1_Original ==
    \A row \in AnalyticsRows :
        LET k == row.window
            I == Deliveries(k)
        IN  Undropped(I, k) = I =>
              /\ row.transaction_count = Cardinality(I)
              /\ row.total_amount = SumByEventTime(stream, I)
              /\ row.min_amount = MinAmount(stream, I)
              /\ row.max_amount = MaxAmount(stream, I)

\* ---------------------------------------------------------------------- C2
\* C2 (exactly-once-per-window emission): no window key has more than one
\* row in the analytics sink, and once the query has run a batch under a
\* watermark at or past the end of a window key that was created, that key
\* has exactly one row.  (A query stopped by a sink error stays in phase
\* "planned"; the second part speaks of runs without such a failure.  Only
\* a record behind the watermark has a window that ended by it.)
C2_ExactlyOnce ==
    /\ \A e \in BagToSet(analyticsSink) :
          /\ CopiesIn(e, analyticsSink) = 1
          /\ \A f \in BagToSet(analyticsSink) : f.row.window = e.row.window => f = e
    /\ phase["analytics"] # "planned" =>
          \A i \in 1..Processed :
              stream[i].transaction_date < planned["analytics"].wm =>
                  LET r == ApplyTransformations(stream[i])
                  IN  \A s \in WindowStarts(stream[i].transaction_date,
                                            WindowLength, SlideInterval) :
                          ( /\ s + WindowLength <= planned["analytics"].wm
                            /\ << i, s >> \notin droppedRows ) =>
                                EmitCount(WindowKey(r, s)) = 1

\* a window was emitted once, every record has been committed by a later
\* batch, and other windows are still open
C2_Witness ==
    /\ phase["analytics"] = "idle"
    /\ committed["analytics"] = MaxRecords
    /\ DOMAIN windowState # {}
    /\ \E k \in StreamKeys :
          /\ EmitCount(k) = 1
          /\ k.window_end < planned["analytics"].wm

\* ---------------------------------------------------------------------- C3
\* C3 as stated (finalization at window_end + allowed lateness <= watermark):
\* every emitted window ended at least the allowed lateness before the
\* watermark.
C3_Original ==
    \A row \in AnalyticsRows :
        row.window.window_end + WatermarkDelay <= watermark

\* the window keys that gain a row in the step
EmittedInStep ==
    { k \in { e.row.window : e \in BagToSet(analyticsSink') } :
        EmitCountIn(analyticsSink', k) > EmitCountIn(analyticsSink, k) }

\* C3 (amended): a pass of the analytics query under watermark W emits and
\* evicts exactly the window keys held in the state store with
\* window_end <= W (the watermark is already max event time minus the
\* allowed lateness); no key with window_end > W is emitted and none with
\* window_end <= W remains afterwards.
C3_FinalizePass ==
    [][ AnalyticsPass =>
          LET wm == planned["analytics"].wm
          IN  /\ \A k \in EmittedInStep :
                    /\ k.window_end <= wm
                    /\ k \in DOMAIN windowState
                    /\ k \notin DOMAIN windowState'
              /\ \A k \in DOMAIN windowState :
                    k.window_end <= wm => k \in EmittedInStep
              /\ \A k \in DOMAIN windowState' : k.window_end > wm
      ]_vars

\* a window was emitted by a pass whose watermark equals its end, less than
\* the allowed lateness behind the current watermark
C3_Witness ==
    /\ phase["analytics"] = "written"
    /\ \E row \in AnalyticsRows :
          /\ row.window.window_end = planned["analytics"].wm
          /\ row.window.window_end + WatermarkDelay > watermark

\* ---------------------------------------------------------------------- C4
\* the largest event time among the records of committed batches
MaxCommittedEventTime ==
    CHOOSE t \in { stream[i].transaction_date : i \in 1..committed["analytics"] } :
        \A i \in 1..committed["analytics"] : stream[i].transaction_date <= t

\* C4 (watermark monotonicity): no step lowers the watermark, whatever the
\* event times of the records processed, and once a batch with records is
\* committed the watermark is the largest event time seen minus the allowed
\* lateness.
C4_WatermarkMonotone ==
    [][ /\ watermark' >= watermark
        /\ committed'["analytics"] > 0 =>
              watermark' = MaxCommittedEventTime' - WatermarkDelay
      ]_vars

\* the watermark has advanced and a record with an event time behind it
\* was committed in a later batch
C4_Witness ==
    /\ phase["analytics"] = "idle"
    /\ watermark > 0
    /\ \E i \in 1..committed["analytics"] :
          /\ stream[i].transaction_date < watermark
          /\ \E s \in 0..stream[i].transaction_date : << i, s >> \in droppedRows

\* ---------------------------------------------------------------------- C5
\* the window keys [start, start + L) with start a multiple of S that
\* contain the event time of r, under the key fields of r
ContainingWindows(r) ==
    LET country == NormalizeCode(r.country_code)
        type    == NormalizeCode(r.transaction_type)
    IN  { [ country_code     |-> country,
            transaction_type |-> type,
            window_start     |-> s,
            window_end       |-> s + WindowLength ] :
          s \in { x \in (r.transaction_date - WindowLength + 1)..r.transaction_date :
                    x % SlideInterval = 0 } }

\* C5 as stated (an event behind the watermark is dropped as a whole): a
\* batch of one record with event_time < watermark leaves every window
\* aggregate as it was and creates no window key.
C5_Original ==
    [][ ( /\ AnalyticsPass
          /\ planned["analytics"].end = planned["analytics"].start + 1
          /\ stream[planned["analytics"].end].transaction_date
                < planned["analytics"].wm )
        => \A k \in DOMAIN windowState' :
              k \in DOMAIN windowState /\ windowState'[k] = windowState[k]
      ]_vars

\* ---------------------------------------------------------------------- C7
\* C7 (no mutation after finalization): rows once written stay as written,
\* a window key that has a row never gets a second one and is never held
\* in the state store again, and a later event of that window is dropped
\* for it.
C7_NoMutationAfterFinal ==
    [][ /\ \A e \in BagToSet(analyticsSink) :
              CopiesIn(e, analyticsSink') >= CopiesIn(e, analyticsSink)
        /\ \A k \in { e.row.window : e \in BagToSet(analyticsSink) } :
                /\ EmitCountIn(analyticsSink', k) = 1
                /\ k \notin DOMAIN windowState'
                /\ AnalyticsPass =>
                     \A i \in AnalyticsBatch :
                         InWindow(stream[i], k) =>
                            << i, k.window_start >> \in droppedRows'
      ]_vars

\* an event of a window was processed by a batch later than the one that
\* wrote the window's row
C7_Witness ==
    /\ phase["analytics"] = "written"
    /\ \E e \in BagToSet(analyticsSink) :
          /\ e.batch < batchId["analytics"]
          /\ \E i \in AnalyticsBatch :
                /\ InWindow(stream[i], e.row.window)
                /\ << i, e.row.window.window_start >> \in droppedRows
                /\ e.row.window \notin DOMAIN windowState

\* ---------------------------------------------------------------------- C8
\* the records of the planned batch that fall in window k
BatchDeliveries(k) == { j \in AnalyticsBatch : InWindow(stream[j], k) }

\* C8 (allowed lateness per window): an event is folded into each of its
\* windows that the watermark of its batch has not reached (window_end >
\* watermark), also when the event time itself is behind the watermark:
\* after the pass the window holds the count and the sum it held before
\* plus those of the events of the batch that fall in it.
C8_AllowedLateness ==
    [][ AnalyticsPass =>
          \A i \in AnalyticsBatch :
            \A k \in ContainingWindows(stream[i]) :
               k.window_end > planned["analytics"].wm =>
                 LET D == BatchDeliveries(k)
                 IN  /\ << i, k.window_start >> \notin droppedRows'
                     /\ k \in DOMAIN windowState'
                     /\ windowState'[k].transaction_count =
                          (IF k \in DOMAIN windowState
                           THEN windowState[k].transaction_count ELSE 0)
                          + Cardinality(D)
                     /\ windowState'[k].total_amount =
                          DoubleAdd(IF k \in DOMAIN windowState
                                    THEN windowState[k].total_amount ELSE Whole(0),
                                    SumAmounts(stream, D))
      ]_vars

\* an event behind the watermark joined a window that an earlier batch
\* had created
C8_Witness ==
    /\ phase["analytics"] = "written"
    /\ \E i \in AnalyticsBatch :
          /\ stream[i].transaction_date < planned["analytics"].wm
          /\ \E k \in ContainingWindows(stream[i]) :
                /\ k \in DOMAIN windowState
                /\ windowState[k].transaction_count
                     > Cardinality(BatchDeliveries(k))

\* ---------------------------------------------------------------------- C6
\* the stream offset up to which the alerts query has written alerts
AlertsProcessed ==
    IF phase["alerts"] = "written" THEN planned["alerts"].end
    ELSE committed["alerts"]

\* the fields of record r match an alert rule
MatchesRule(r) ==
    \/ Greater(Amount(r), Whole(HighValueTransaction))
    \/ Status(r) = "FAILED"
    \/ Less(Amount(r), Whole(0))

\* how many alert rows the alert sink holds for transaction id
AlertCopies(id) ==
    SumCopies(alertsSink, { e \in BagToSet(alertsSink) : e.row.transaction_id = id })

\* the deliveries of transaction id the alerts query has processed
AlertDeliveries(id) ==
    { j \in 1..AlertsProcessed : stream[j].transaction_id = id }

\* C6 (alerts are never suppressed by lateness): every delivery the alerts
\* query has processed has its alert row if and only if its fields match a
\* rule, with the fields of the record (its country code trimmed and in
\* upper case), however far its event time lies behind the watermark; and an event with event_time < watermark - allowed
\* lateness is in no window the state store still holds and all its window
\* rows are dropped.
C6_AlertsNotSuppressed ==
    /\ \A i \in 1..AlertsProcessed :
          /\ AlertCopies(stream[i].transaction_id) =
                IF MatchesRule(stream[i])
                THEN Cardinality(AlertDeliveries(stream[i].transaction_id))
                ELSE 0
          /\ \A e \in BagToSet(alertsSink) :
                e.row.transaction_id = stream[i].transaction_id =>
                   /\ e.row.amount = Amount(stream[i])
                   /\ e.row.status = Status(stream[i])
                   /\ e.row.transaction_date = stream[i].transaction_date
                   /\ e.row.country_code = NormalizeCode(stream[i].country_code)
    /\ phase["analytics"] = "written" =>
          \A i \in AnalyticsBatch :
             stream[i].transaction_date
                  < planned["analytics"].wm - WatermarkDelay =>
                /\ \A k \in DOMAIN windowState : ~InWindow(stream[i], k)
                /\ \A k \in ContainingWindows(stream[i]) :
                      << i, k.window_start >> \in droppedRows

\* an event more than the allowed lateness behind the watermark was
\* dropped by the analytics query and has its alert row
C6_Witness ==
    /\ phase["analytics"] = "written"
    /\ \E i \in AnalyticsBatch :
          /\ stream[i].transaction_date
                < planned["analytics"].wm - WatermarkDelay
          /\ MatchesRule(stream[i])
          /\ i <= AlertsProcessed
          /\ AlertCopies(stream[i].transaction_id) = 1
          /\ \A k \in ContainingWindows(stream[i]) :
                << i, k.window_start >> \in droppedRows

\* ---------------------------------------------------------------------- C9
\* the first delivery of each transaction among the deliveries I
FirstDeliveries(I) ==
    { i \in I : \A j \in I :
         stream[j].transaction_id = stream[i].transaction_id => i <= j }

\* C9 as stated (replay does not change results): the row of a window none
\* of whose deliveries was dropped counts and sums each transaction once,
\* however often it was delivered.
C9_Original ==
    \A row \in AnalyticsRows :
        LET I == Deliveries(row.window)
        IN  Undropped(I, row.window) = I =>
              /\ row.transaction_count = Cardinality(FirstDeliveries(I))
              /\ row.total_amount = SumAmounts(stream, FirstDeliveries(I))

\* the source has delivered some transaction again and the query has
\* processed that delivery
Replayed ==
    \E i \in 1..Processed : \E j \in 1..(i - 1) :
        stream[j].transaction_id = stream[i].transaction_id

\* C9 (amended): a transaction the source delivers again before the
\* window is finalized is folded again: once a delivery was repeated, the
\* finalized row counts every delivery and sums the amount of every
\* delivery; only the minimum and the maximum are those of a single
\* delivery of each transaction.
C9_ReplayCounted ==
    Replayed =>
      \A row \in AnalyticsRows :
        LET I     == Deliveries(row.window)
            once  == FirstDeliveries(I)
            again == I \ once
        IN  Undropped(I, row.window) = I =>
              /\ row.transaction_count = Cardinality(once) + Cardinality(again)
              /\ row.total_amount =
                    DoubleAdd(SumAmounts(stream, once), SumAmounts(stream, again))
              /\ row.min_amount = MinAmount(stream, once)
              /\ row.max_amount = MaxAmount(stream, once)

\* a finalized window folded the same transaction twice
C9_Witness ==
    \E row \in AnalyticsRows :
        LET I == Deliveries(row.window)
        IN  /\ Folded(row.window) = I
            /\ I \ FirstDeliveries(I) # {}
            /\ row.transaction_count = 2

\* --------------------------------------------------------------------- C10
\* the transformed rows in the files of their sink
TransformedWritten == { e.row : e \in BagToSet(transactionsSink) }

\* C10 (checkpoint commit ordering): the committed offset of a query covers
\* only records whose output its sink has acknowledged: every record the
\* query of the transformed rows has read (those after its initial offset)
\* under its committed offset has its row in the sink, and a batch is
\* committed only after it was written.  The
\* writers of the analytics and of the alerts never get a query, so they
\* commit nothing and their sinks stay empty.
C10_CommitAfterAck ==
    /\ \A i \in (initialOffset["transactions"] + 1)..committed["transactions"] :
          TransformedRow(stream, i) \in TransformedWritten
    /\ committed["transactions"] <= Len(stream)
    /\ \A q \in Queries :
          /\ committed[q] = 0
          /\ qstatus[q] = "none"
    /\ analyticsSink = EmptyBag
    /\ alertsSink = EmptyBag

\* the query of the transformed rows has committed a batch and has written
\* the next one, which it has not committed yet
C10_Witness ==
    /\ phase["transactions"] = "written"
    /\ committed["transactions"] > 0
    /\ committed["transactions"] < planned["transactions"].end
    /\ \A i \in (initialOffset["transactions"] + 1)..planned["transactions"].end :
          TransformedRow(stream, i) \in TransformedWritten

\* --------------------------------------------------------------------- C11
\* every record that matches an alert rule has an alert row in the alert sink
AllAlertsEmitted ==
    \A i \in 1..Len(stream) :
        AlertFilter(stream[i]) =>
            \E e \in BagToSet(alertsSink) :
                e.row.transaction_id = stream[i].transaction_id

\* C11 as stated (no silent loss on sink failure): a failed batch is read
\* again from the last committed checkpoint, so whatever failures and
\* restarts happened, the events the job has taken in are not lost to the
\* aggregates and the alerts: when a run of the job has ended in a failure
\* after it committed every record of the stream to the sink of the
\* transformed rows, every record is covered by the commit log of the
\* analytics and every record that matches a rule has its alert.
C11_Original ==
    ( /\ job = "failed"
      /\ Len(stream) > 0
      /\ committed["transactions"] = Len(stream) ) =>
        /\ committed["analytics"] = Len(stream)
        /\ AllAlertsEmitted

\* --------------------------------------------------------------------- C13
\* C13 (window assignment): for an event time t and a window length L that
\* the slide S divides, the windows assigned are exactly those starting at a
\* multiple of S with start <= t < start + L; there are L / S of them.  (The
\* result is a function of t, L and S alone: nothing else is read.)
C13_WindowAssignment ==
    ( input.op = "window" /\ output.done ) =>
        /\ output.value =
              { s \in (input.t - input.L)..input.t :
                  /\ s % input.S = 0
                  /\ s <= input.t
                  /\ input.t < s + input.L }
        /\ Cardinality(output.value) = input.L \div input.S

\* windows were assigned to an event time on a window boundary, with a
\* slide of more than one unit and overlapping windows, and the window that
\* starts at the event time is among them
C13_Witness ==
    /\ input.op = "window"
    /\ output.done
    /\ input.S > 1
    /\ input.L > input.S
    /\ input.t % input.S = 0
    /\ input.t \in output.value

\* --------------------------------------------------------------------- C14
\* the start of the minute h:m, in seconds
MinuteStart(h, m) == (h * 60 + m) * 60

\* C14 as stated: with L = 5 min and S = 1 min the event at 12:03:30 belongs
\* to exactly the windows starting at 12:00, 12:01, 12:02 and 12:03.
C14_Original ==
    ( input = ExampleWindowInput /\ output.done ) =>
        output.value = { MinuteStart(12, m) : m \in 0..3 }

\* C14 (amended): with L = 5 min and S = 1 min the event at 12:03:30 belongs
\* to exactly the five windows starting at 11:59, 12:00, 12:01, 12:02 and
\* 12:03.
C14_WindowExample ==
    ( input = ExampleWindowInput /\ output.done ) =>
        output.value = { MinuteStart(11, 59) } \cup { MinuteStart(12, m) : m \in 0..3 }

\* the windows of the event at 12:03:30 were assigned, the one starting at
\* 11:59 among them
C14_Witness ==
    /\ input = ExampleWindowInput
    /\ output.done
    /\ MinuteStart(11, 59) \in output.value

\* --------------------------------------------------------------------- C15
\* the threshold of the high-value rule for the type of event e
HighValueThreshold(e) ==
    IF e.event_type = "Transaction" THEN HighValueTransaction ELSE LargeRemittance

\* the alert the ordered rules of the claim give for event e, under the
\* names the alert has in the alert stream of its type
FirstMatch(e) ==
    IF Greater(Amount(e), Whole(HighValueThreshold(e)))
    THEN << IF e.event_type = "Transaction" THEN "HIGH_VALUE_TRANSACTION"
            ELSE "LARGE_REMITTANCE" >>
    ELSE IF Status(e) = "FAILED"
    THEN << IF e.event_type = "Transaction" THEN "FAILED_TRANSACTION"
            ELSE "FAILED_REMITTANCE" >>
    ELSE IF Less(Amount(e), Whole(0)) THEN << "NEGATIVE_AMOUNT" >>
    ELSE IF e.event_type = "Remittance" /\ e.exchange_rate = NullRate
    THEN << "MISSING_EXCHANGE_RATE" >>
    ELSE << >>

\* C15 (alert rule priority): an event gets at most one alert, the one of
\* the first rule it matches in the order high value / large remittance,
\* failed, negative amount, missing exchange rate (remittances only), and no
\* alert iff it matches no rule; a remittance of amount 100 without an
\* exchange rate gets MISSING_EXCHANGE_RATE, a transaction never does.
C15_RulePriority ==
    ( input.op = "evaluate" /\ output.done ) =>
        /\ Len(output.value) <= 1
        /\ output.value = FirstMatch(input)
        /\ ( /\ input.event_type = "Remittance"
             /\ input.exchange_rate = NullRate
             /\ Amount(input) = Whole(100)
             /\ Status(input) # "FAILED" )
           => output.value = << "MISSING_EXCHANGE_RATE" >>
        /\ input.event_type = "Transaction"
           => output.value # << "MISSING_EXCHANGE_RATE" >>

\* a failed remittance above the threshold and without an exchange rate was
\* evaluated: it matches three rules and got the alert of the first
C15_Witness ==
    /\ input.op = "evaluate"
    /\ output.done
    /\ input.event_type = "Remittance"
    /\ DoubleLess(Whole(LargeRemittance), Amount(input))
    /\ Status(input) = "FAILED"
    /\ input.exchange_rate = NullRate
    /\ output.value = << "LARGE_REMITTANCE" >>

\* --------------------------------------------------------------------- C16
\* the window that holds the three transactions of the scenario
ScenarioWindow ==
    [ country_code     |-> << "H", "N" >>,
      transaction_type |-> << "R" >>,
      window_start     |-> WatermarkDelay,
      window_end       |-> WatermarkDelay + WindowLength ]

\* the alert types in the alert sink, with the amounts they were raised for
AlertsRaised == { << e.row.amount, e.row.alert_type >> : e \in BagToSet(alertsSink) }

\* C16 (aggregate and alert scenario): every row written for a window holds
\* the count, the sum, the minimum and the maximum of the amounts of the
\* events folded into it, and the average as sum over count; there is one
\* alert for each processed event that matches a rule.  For the three
\* events with amounts 50, 150000 and -20 the row of their window is
\* {count 3, sum 150030, min -20, max 150000}, and once the alerts query has
\* processed them the sink holds exactly two alerts: the high-value alert
\* for 150000 and NEGATIVE_AMOUNT for -20.
C16_Scenario ==
    /\ \A row \in AnalyticsRows :
          LET I == Folded(row.window)
          IN  /\ I # {}
              /\ row.transaction_count = Cardinality(I)
              /\ row.total_amount = SumAmounts(stream, I)
              /\ row.min_amount = MinAmount(stream, I)
              /\ row.max_amount = MaxAmount(stream, I)
              /\ row.avg_amount = << row.total_amount, row.transaction_count >>
    /\ \A row \in AnalyticsRows :
          row.window = ScenarioWindow =>
              /\ row.transaction_count = 3
              /\ row.total_amount = Whole(150030)
              /\ row.min_amount = Whole(-20)
              /\ row.max_amount = Whole(150000)
    /\ \A i \in 1..AlertsProcessed :
          AlertCopies(stream[i].transaction_id) =
              IF MatchesRule(stream[i]) THEN 1 ELSE 0
    /\ AlertsProcessed >= Cardinality(ScenarioEvents) =>
          /\ SumCopies(alertsSink, BagToSet(alertsSink)) = 2
          /\ AlertsRaised = { << Whole(150000), "HIGH_VALUE_TRANSACTION" >>,
                              << Whole(-20), "NEGATIVE_AMOUNT" >> }

\* the row of the window of the three transactions is written and both of
\* their alerts are in the alert sink
C16_Witness ==
    /\ \E row \in AnalyticsRows : row.window = ScenarioWindow
    /\ AlertsProcessed >= Cardinality(ScenarioEvents)
    /\ SumCopies(alertsSink, BagToSet(alertsSink)) = 2

\* --------------------------------------------------------------------- C17
\* the record lacks a required field
Rejected(r) == r.transaction_id = NullId \/ Amount(r) = NullAmount

\* the records of the stream that have every required field
Accepted == { i \in 1..Len(stream) : ~Rejected(stream[i]) }

\* C17 as stated (rejected records never enter the stateful path): a raw
\* record that lacks its id or its amount creates no window key, changes no window
\* aggregate and does not advance the watermark: every key of the window
\* state belongs to an accepted record, every written row counts only
\* accepted records, and a watermark that has moved lies the delay behind
\* the event time of an accepted record.
C17_Original ==
    /\ \A k \in DOMAIN windowState :
          \E i \in Accepted : InWindow(stream[i], k)
    /\ \A row \in AnalyticsRows :
          row.transaction_count = Cardinality(Folded(row.window) \cap Accepted)
    /\ watermark > 0 =>
          \E i \in Accepted : watermark <= stream[i].transaction_date - WatermarkDelay

\* --------------------------------------------------------------------- C18
\* white space characters
Whitespace == { " ", "\t" }

\* s without the white space at its ends
Strip(s) ==
    LET kept == { i \in DOMAIN s : s[i] \notin Whitespace }
    IN  IF kept = {} THEN << >>
        ELSE SubSeq(s, CHOOSE i \in kept : \A j \in kept : i <= j,
                       CHOOSE i \in kept : \A j \in kept : j <= i)

\* the same character up to letter case
SameLetter(c, d) == c = d \/ { c, d } = { "h", "H" }

\* a and b hold a code and differ only in letter case or surrounding white
\* space
SameCode(a, b) ==
    /\ Strip(a) # << >>
    /\ Len(Strip(a)) = Len(Strip(b))
    /\ \A i \in 1..Len(Strip(a)) : SameLetter(Strip(a)[i], Strip(b)[i])

\* C18 as stated (keying is case- and whitespace-insensitive): two valid
\* events whose code fields differ only in letter case or surrounding white
\* space are expanded to the same window keys.
C18_Original ==
    ( input.op = "normalize" /\ output.done /\ SameCode(input.a, input.b) ) =>
        output.value[1] = output.value[2]

\* --------------------------------------------------------------------- C19
\* C19 as stated (graceful shutdown): a query that was stopped by a
\* shutdown has completed the batch it was processing, commit included: it
\* is never stopped with a batch planned or written and not committed.
C19_Original ==
    \A q \in AllQueries :
        ( job = "stopped" /\ qstatus[q] = "stopped" ) => phase[q] = "idle"

\* --------------------------------------------------------------------- C20
\* C20 as stated (isolation): an error raised in one query stops no other
\* query: a query that did not fail itself is stopped only by a shutdown of
\* the job.
C20_Original ==
    \A q \in AllQueries : qstatus[q] = "stopped" => job = "stopped"

\* --------------------------------------------------------------------- C21
\* C21 as stated (a checkpoint store failure halts the partition): a query
\* that terminated on a failure of its checkpoint store is never started
\* again automatically, and it plans, writes and commits nothing more.
C21_Original ==
    [][ \A q \in AllQueries :
          qstatus[q] = "failed" =>
              /\ qstatus'[q] = "failed"
              /\ phase'[q] = phase[q]
              /\ committed'[q] = committed[q]
              /\ batchId'[q] = batchId[q] ]_vars

\* --------------------------------------------------------------------- C22
\* C22 as stated (source unavailability never stops a partition): whatever
\* the availability of the stream, no query terminates because of it: a
\* query that was started keeps retrying the read and never fails on it.
C22_Original ==
    \A q \in AllQueries : qstatus[q] # "failed"

\* --------------------------------------------------------------------- C24
\* C24 as stated (strictly sequential partition loop): the batches of the
\* stream are taken one at a time - while a batch is logged and not yet
\* committed no other batch of the stream is in progress - and the alert
\* sink is written only at the boundary of a batch, never while the events
\* of a logged batch are still to be accumulated.
C24_Original ==
    /\ [] ( \A q \in Queries : \A p \in Queries \ {q} :
                phase[q] = "idle" \/ phase[p] = "idle" )
    /\ [][ alertsSink' # alertsSink => phase["analytics"] # "planned" ]_vars

\* --------------------------------------------------------------------- C25
\* the event an alert row was selected from, as the rules read it
EventOfAlert(row) ==
    [ event_type    |-> "Transaction",
      payload       |-> << row.amount, row.status >>,
      exchange_rate |-> NullRate ]

\* C25 (the alert evaluator is stateless): the alert type of every alert
\* row is the one the rules give for the fields of its event alone - so it
\* is the same in every run, whatever events came before, whatever the
\* watermark and the window state are - an event whose fields match no rule
\* has no row in any run; and the step of the alerts query changes neither
\* the state store, nor the watermark, nor the dropped rows, nor the
\* analytics sink, nor what the analytics query has logged or committed.
C25_Stateless ==
    /\ [] ( /\ \A e \in BagToSet(alertsSink) :
                  << e.row.alert_type >> = FirstMatch(EventOfAlert(e.row))
            /\ \A i \in 1..AlertsProcessed :
                  ( \E e \in BagToSet(alertsSink) :
                        e.row.transaction_id = stream[i].transaction_id )
                  <=> MatchesRule(stream[i]) )
    /\ [][ alertsSink' # alertsSink =>
             UNCHANGED << windowState, watermark, batchMax,
                          droppedRows, analyticsSink, planned["analytics"],
                          committed["analytics"], batchId["analytics"] >> ]_vars

\* an event behind the watermark got its alert while the state store held
\* windows, and an event before it matched no rule and got none
C25_Witness ==
    /\ DOMAIN windowState # {}
    /\ \E e \in BagToSet(alertsSink) :
          /\ e.row.transaction_date < watermark
          /\ e.row.alert_type = "HIGH_VALUE_TRANSACTION"
    /\ \E i \in 1..AlertsProcessed : ~MatchesRule(stream[i])

\* --------------------------------------------------------------------- C26
\* the windows a record is expanded to
WindowsPerEvent == WindowLength \div SlideInterval

\* C26 as stated (record accounting): every record processed is in exactly
\* one of three classes - rejected (it lacks a required field, and then no
\* window counts it), dropped as late (none of its windows counts it), or
\* accumulated (each of its L/S windows counts it).
C26_Original ==
    \A i \in 1..Processed :
        LET ks      == WindowKeys(ApplyTransformations(stream[i]))
            counted == { k \in ks : i \in Folded(k) }
        IN  IF Rejected(stream[i]) THEN counted = {}
            ELSE \/ counted = {}
                 \/ counted = ks /\ Cardinality(ks) = WindowsPerEvent

\* --------------------------------------------------------------------- C27
\* the alert types the when-chains name for a rule
NamedAlertTypes ==
    { "HIGH_VALUE_TRANSACTION", "FAILED_TRANSACTION", "LARGE_REMITTANCE",
      "FAILED_REMITTANCE", "NEGATIVE_AMOUNT", "MISSING_EXCHANGE_RATE" }

\* a branch of the when-chain of its stream takes the row e
NamedBranch(e) ==
    IF e.event_type = "Transaction"
    THEN AlertType(e) # "OTHER"
    ELSE RemittanceAlertType(e) # "OTHER"

\* the filter of the alert stream of its type passes the row e
PassesFilter(e) ==
    IF e.event_type = "Transaction" THEN AlertFilter(e) ELSE RemittanceAlertFilter(e)

\* C27 (the fallback alert type is never emitted): for every combination of
\* amount, status and exchange rate, absent values included, a row passes
\* the alert filter iff a named branch of the when-chain takes it; every
\* alert row carries a named alert type and never OTHER, and a row no
\* branch takes gives no alert row.
C27_NoOtherAlert ==
    ( input.op = "evaluate" /\ output.done ) =>
        /\ PassesFilter(input) <=> NamedBranch(input)
        /\ \A j \in DOMAIN output.value : output.value[j] \in NamedAlertTypes
        /\ ~NamedBranch(input) => output.value = << >>
        /\ NamedBranch(input) => Len(output.value) = 1

\* a transaction whose amount and status are both null was evaluated and
\* gave no alert row
C27_Witness ==
    /\ input.op = "evaluate"
    /\ output.done
    /\ input.event_type = "Transaction"
    /\ Amount(input) = NullAmount
    /\ Status(input) = "NULL"
    /\ output.value = << >>

\* --------------------------------------------------------------------- C28
\* C28 (per-type thresholds, strict comparison): a transaction gets the
\* high-value alert iff its amount is greater than 100000 and a remittance
\* the large-remittance alert iff its amount is greater than 50000; an
\* amount equal to the threshold of its type raises neither, and an amount
\* in (50000, 100000] raises LARGE_REMITTANCE for a remittance and no
\* high-value alert for a transaction.
C28_StrictThresholds ==
    ( input.op = "evaluate" /\ output.done ) =>
        LET a     == Amount(input)
            known == a # NullAmount
        IN  /\ input.event_type = "Transaction" =>
                  /\ output.value = << "HIGH_VALUE_TRANSACTION" >>
                        <=> ( known /\ DoubleLess(Whole(100000), a) )
                  /\ output.value # << "LARGE_REMITTANCE" >>
                  /\ HighValueFlag(input) <=> ( known /\ DoubleLess(Whole(100000), a) )
            /\ input.event_type = "Remittance" =>
                  /\ output.value = << "LARGE_REMITTANCE" >>
                        <=> ( known /\ DoubleLess(Whole(50000), a) )
                  /\ output.value # << "HIGH_VALUE_TRANSACTION" >>
                  /\ LargeRemittanceFlag(input) <=> ( known /\ DoubleLess(Whole(50000), a) )

\* a transaction of amount 100000, its threshold, was evaluated and gave no
\* alert, where a remittance of that amount gets LARGE_REMITTANCE
C28_Witness ==
    /\ input.op = "evaluate"
    /\ output.done
    /\ input.event_type = "Transaction"
    /\ Amount(input) = Whole(100000)
    /\ Status(input) = "SUCCESS"
    /\ output.value = << >>
    /\ AlertsOf([ input EXCEPT !.event_type = "Remittance" ])
          = << "LARGE_REMITTANCE" >>

\* --------------------------------------------------------------------- C29
\* the alert types the per-event alert streams can name
PerEventAlertTypes == NamedAlertTypes \cup { "OTHER" }

\* C29 (high-frequency flag): the flag of a window row is set iff its
\* transaction_count / 5 is greater than 10, that is iff the count is
\* greater than 50; it is a function of the count of that row alone; the
\* alert streams, which read single events, name no frequency alert.
C29_HighFrequencyFlag ==
    /\ ( input.op = "frequency" /\ output.done ) =>
          ( output.value <=> input.count > 50 )
    /\ ( input.op = "evaluate" /\ output.done ) =>
          \A j \in DOMAIN output.value : output.value[j] \in PerEventAlertTypes

\* a window row that counts 51 transactions was flagged
C29_Witness ==
    /\ input.op = "frequency"
    /\ output.done
    /\ input.count = 51
    /\ output.value

\* --------------------------------------------------------------------- C30
\* the batch chain of the DAG, in its order
BatchChain ==
    << "get_processing_date", "batch_etl_job", "batch_etl_sensor",
       "data_quality_check", "glue_crawler", "crawler_sensor", "dbt_run",
       "dbt_test", "dbt_docs", "update_redshift", "send_notification", "end" >>

\* the states of a task instance that was started
StartedStates == { "running", "success", "failed" }

\* C30 (orchestration order of the DAG): in every run a task of the batch
\* chain has started only if the task before it in the chain succeeded, and
\* the streaming job only if get_processing_date succeeded; a task of the
\* chain whose predecessor succeeded can start whatever the state of the
\* streaming job, failed included, so send_notification and end never wait
\* for it; the streaming job in turn waits for nothing but
\* get_processing_date; and at most one run is active at a time.
C30_DagOrder ==
    /\ \A r \in DOMAIN dagRuns :
          /\ \A j \in 2..Len(BatchChain) :
                /\ dagRuns[r][BatchChain[j]] \in StartedStates
                      => dagRuns[r][BatchChain[j - 1]] = "success"
                /\ ( /\ dagRuns[r][BatchChain[j - 1]] = "success"
                     /\ dagRuns[r][BatchChain[j]] = "none" )
                      => ENABLED StartTask(r, BatchChain[j])
          /\ dagRuns[r]["streaming_etl_job"] \in StartedStates
                => dagRuns[r]["get_processing_date"] = "success"
          /\ ( /\ dagRuns[r]["get_processing_date"] = "success"
               /\ dagRuns[r]["streaming_etl_job"] = "none" )
                => ENABLED StartTask(r, "streaming_etl_job")
    /\ Cardinality(ActiveRuns) <= 1

\* the first run ended with the streaming job failed and the batch chain
\* done to its end; in the second run the notification is running while
\* the streaming job still runs
C30_Witness ==
    /\ Len(dagRuns) = 2
    /\ dagRuns[1]["streaming_etl_job"] = "failed"
    /\ dagRuns[1]["end"] = "success"
    /\ dagRuns[2]["send_notification"] = "running"
    /\ dagRuns[2]["streaming_etl_job"] = "running"

====
